---- MODULE Spec2Model ----
(***************************************************************************)
(* Model of src/values/angle.rs: the Angle value (Deg, Grad, Rad, Turn,    *)
(* Calc), its parser, its serializer, to_degrees, and the Mul<f32>,        *)
(* Add<Angle>, PartialEq<f32> and PartialOrd<f32> implementations.         *)
(*                                                                         *)
(* An f32 magnitude is modelled as a decimal floating point number         *)
(* [m |-> mantissa, e |-> exponent] denoting m * 10^e, kept normalised (m  *)
(* has no trailing zero, zero is [m |-> 0, e |-> 0]).  Arithmetic is exact *)
(* on that representation; an operation whose mantissa would leave         *)
(* -MaxMant..MaxMant is not taken.  Text is a sequence of one-character    *)
(* strings.                                                                *)
(***************************************************************************)
EXTENDS Integers, Sequences, FiniteSets, TLC

VARIABLES val, op, arg, res, out, nops

vars == <<val, op, arg, res, out, nops>>

\* Largest mantissa magnitude of a modelled number.
MaxMant == 999999999
\* Number of value-producing operators (* and +) applied after a parse.
MaxOps == 2
\* Largest run of whitespace in front of the token that parse reads.
MaxWs == 1

---------------------------------------------------------------------------
(* Decimal floating point numbers standing for f32.                        *)

Abs(n) == IF n < 0 THEN -n ELSE n

Sign(n) == IF n < 0 THEN -1 ELSE IF n = 0 THEN 0 ELSE 1

RECURSIVE Pow10(_)
Pow10(n) == IF n <= 0 THEN 1 ELSE 10 * Pow10(n - 1)

RECURSIVE NumDigits(_)
NumDigits(n) == IF n < 10 THEN 1 ELSE 1 + NumDigits(n \div 10)

RECURSIVE Norm(_, _)
Norm(m, e) ==
  IF m = 0 THEN [m |-> 0, e |-> 0]
  ELSE IF m % 10 = 0 THEN Norm(m \div 10, e + 1)
  ELSE [m |-> m, e |-> e]

F(m, e) == Norm(m, e)

Zero == F(0, 0)
One == F(1, 0)

Neg(a) == [m |-> -a.m, e |-> a.e]

\* The position of the decimal point relative to the first digit:
\* |a| lies in [10^(Point(a)-1), 10^Point(a)).
Point(a) == NumDigits(Abs(a.m)) + a.e

MulFits(a, b) ==
  IF a.m = 0 \/ b.m = 0 THEN TRUE ELSE Abs(a.m) <= MaxMant \div Abs(b.m)

FMul(a, b) == Norm(a.m * b.m, a.e + b.e)

MinE(a, b) ==
  IF a.m = 0 THEN b.e ELSE IF b.m = 0 THEN a.e
  ELSE IF a.e < b.e THEN a.e ELSE b.e

ScaleFits(a, e) ==
  IF a.m = 0 THEN TRUE
  ELSE IF a.e - e > 9 THEN FALSE
  ELSE Abs(a.m) <= MaxMant \div Pow10(a.e - e)

Scaled(a, e) == IF a.m = 0 THEN 0 ELSE a.m * Pow10(a.e - e)

AddFits(a, b) == ScaleFits(a, MinE(a, b)) /\ ScaleFits(b, MinE(a, b))

FAdd(a, b) == Norm(Scaled(a, MinE(a, b)) + Scaled(b, MinE(a, b)), MinE(a, b))

\* f32::partial_cmp on finite numbers: "Less", "Equal" or "Greater".
FCmp(a, b) ==
  IF a = b THEN "Equal"
  ELSE IF Sign(a.m) # Sign(b.m)
    THEN (IF Sign(a.m) < Sign(b.m) THEN "Less" ELSE "Greater")
  ELSE IF Point(a) # Point(b)
    THEN (IF (Point(a) < Point(b)) = (a.m > 0) THEN "Less" ELSE "Greater")
  ELSE IF Scaled(a, MinE(a, b)) < Scaled(b, MinE(a, b)) THEN "Less"
  ELSE "Greater"

\* f32::abs(v) < 1.0
AbsBelowOne(a) == IF a.m = 0 THEN TRUE ELSE Point(a) <= 0

\* f32::fract: the part after the decimal point, with the sign of the number.
Fract(a) ==
  IF a.e >= 0 THEN Zero
  ELSE IF -a.e > 9 THEN a
  ELSE Norm(Sign(a.m) * (Abs(a.m) % Pow10(-a.e)), a.e)

\* f32::round: the nearest integer, half-way cases away from zero.
Round(a) ==
  IF a.e >= 0 THEN a
  ELSE IF -a.e > 9 THEN Zero
  ELSE Norm(Sign(a.m) * ((Abs(a.m) \div Pow10(-a.e))
                 + (IF 2 * (Abs(a.m) % Pow10(-a.e)) >= Pow10(-a.e) THEN 1 ELSE 0)), 0)

---------------------------------------------------------------------------
(* enum Angle and the Calc<Angle> tree it may own.                         *)

Deg(v) == [variant |-> "Deg", value |-> v]
Grad(v) == [variant |-> "Grad", value |-> v]
Rad(v) == [variant |-> "Rad", value |-> v]
Turn(v) == [variant |-> "Turn", value |-> v]
Calc(c) == [variant |-> "Calc", calc |-> c]

Literals == {"Deg", "Grad", "Rad", "Turn"}

IsLiteral(a) == a.variant \in Literals

\* Calc<Angle>: a resolved leaf, a sum of two trees, a tree times a number.
CalcValue(v) == [node |-> "Value", leaf |-> v]
CalcSum(a, b) == [node |-> "Sum", left |-> a, right |-> b]
CalcProduct(k, c) == [node |-> "Product", factor |-> k, tree |-> c]

\* Calc<V> + Calc<V>
CalcAdd(a, b) == CalcSum(a, b)

\* Calc<V> * f32
CalcMul(c, k) == CalcProduct(k, c)

\* Option<f32>
Some(v) == [some |-> TRUE, v |-> v]
None == [some |-> FALSE, v |-> Zero]

DEG_PER_RAD == F(5729578, -5)

to_degrees(a) ==
  CASE a.variant = "Deg" -> Some(a.value)
    [] a.variant = "Rad" -> Some(FMul(a.value, DEG_PER_RAD))
    [] a.variant = "Grad" -> Some(FMul(FMul(a.value, F(180, 0)), F(5, -3)))
    [] a.variant = "Turn" -> Some(FMul(a.value, F(360, 0)))
    [] OTHER -> None

\* to_degrees stays within the modelled numbers.
DegreesFit(a) ==
  CASE a.variant = "Rad" -> MulFits(a.value, DEG_PER_RAD)
    [] a.variant = "Grad" -> MulFits(a.value, F(9, 0))
    [] a.variant = "Turn" -> MulFits(a.value, F(36, 0))
    [] OTHER -> TRUE

\* A panic of Option::unwrap.
Panic == [variant |-> "Panic"]

\* mul with the operand converted to degrees before the multiplication.
mul_converted(self, other) ==
  IF self.variant = "Calc" THEN Calc(CalcMul(self.calc, other))
  ELSE Deg(FMul(to_degrees(self).v, other))

mul(self, other) ==
  CASE self.variant = "Deg" -> Deg(FMul(self.value, other))
    [] self.variant = "Rad" -> Deg(FMul(self.value, other))
    [] self.variant = "Grad" -> Deg(FMul(self.value, other))
    [] self.variant = "Turn" -> Deg(FMul(self.value, other))
    [] self.variant = "Calc" -> Calc(CalcMul(self.calc, other))

MulOk(self, other) ==
  IF IsLiteral(self) THEN MulFits(self.value, other) ELSE TRUE

\* add with the raw magnitudes summed, no conversion to degrees.
add_raw(self, other) ==
  CASE self.variant = "Calc" /\ other.variant = "Calc" ->
         Calc(CalcAdd(self.calc, other.calc))
    [] self.variant = "Calc" /\ other.variant # "Calc" ->
         Calc(CalcAdd(self.calc, CalcValue(other)))
    [] self.variant # "Calc" /\ other.variant = "Calc" ->
         Calc(CalcAdd(CalcValue(self), other.calc))
    [] OTHER -> Deg(FAdd(self.value, other.value))

add(self, other) ==
  CASE self.variant = "Calc" /\ other.variant = "Calc" ->
         Calc(CalcAdd(self.calc, other.calc))
    [] self.variant = "Calc" /\ other.variant # "Calc" ->
         Calc(CalcAdd(self.calc, CalcValue(other)))
    [] self.variant # "Calc" /\ other.variant = "Calc" ->
         Calc(CalcAdd(CalcValue(self), other.calc))
    [] OTHER ->
         IF to_degrees(self).some /\ to_degrees(other).some
         THEN Deg(FAdd(to_degrees(self).v, to_degrees(other).v))
         ELSE Panic

AddOk(self, other) ==
  IF IsLiteral(self) /\ IsLiteral(other)
  THEN IF DegreesFit(self) /\ DegreesFit(other)
       THEN AddFits(to_degrees(self).v, to_degrees(other).v)
       ELSE FALSE
  ELSE TRUE

eq(self, other) ==
  IF IsLiteral(self) THEN self.value = other ELSE FALSE

\* partial_cmp with the magnitude converted to degrees first.
partial_cmp_converted(self, other) ==
  IF IsLiteral(self) THEN FCmp(to_degrees(self).v, other) ELSE "None"

\* Option<Ordering>: "Less", "Equal", "Greater", or "None".
partial_cmp(self, other) ==
  IF IsLiteral(self) THEN FCmp(self.value, other) ELSE "None"

---------------------------------------------------------------------------
(* Text: sequences of one-character strings.                               *)

DigitChar(d) == <<"0", "1", "2", "3", "4", "5", "6", "7", "8", "9">>[d + 1]

RECURSIVE DigitsOf(_)
DigitsOf(n) ==
  IF n < 10 THEN <<DigitChar(n)>>
  ELSE Append(DigitsOf(n \div 10), DigitChar(n % 10))

Zeros(n) == [i \in 1..n |-> "0"]

HasChar(s, c) == \E i \in 1..Len(s) : s[i] = c

StartsWith(s, pat) == Len(s) >= Len(pat) /\ SubSeq(s, 1, Len(pat)) = pat

\* str::trim_start_matches: the pattern is removed from the front repeatedly.
RECURSIVE trim_start_matches(_, _)
trim_start_matches(s, pat) ==
  IF Len(pat) > 0 /\ StartsWith(s, pat)
  THEN trim_start_matches(SubSeq(s, Len(pat) + 1, Len(s)), pat)
  ELSE s

\* The unit strings of to_css.
UnitText(u) ==
  CASE u = "deg" -> <<"d", "e", "g">>
    [] u = "grad" -> <<"g", "r", "a", "d">>
    [] u = "rad" -> <<"r", "a", "d">>
    [] u = "turn" -> <<"t", "u", "r", "n">>

\* Number of significant digits cssparser writes for an f32.
SHORT_PREC == 6

\* |a| rounded to SHORT_PREC significant digits, on the digit that follows.
RoundedMant(a) ==
  IF NumDigits(Abs(a.m)) <= SHORT_PREC THEN Abs(a.m)
  ELSE (Abs(a.m) + 5 * Pow10(NumDigits(Abs(a.m)) - SHORT_PREC - 1))
         \div Pow10(NumDigits(Abs(a.m)) - SHORT_PREC)

Shortened(a) ==
  IF NumDigits(Abs(a.m)) <= SHORT_PREC THEN Norm(Abs(a.m), a.e)
  ELSE Norm(RoundedMant(a), a.e + NumDigits(Abs(a.m)) - SHORT_PREC)

\* A non-negative number in positional notation.
Plain(b) ==
  IF b.m = 0 THEN <<"0">>
  ELSE IF b.e >= 0 THEN DigitsOf(b.m) \o Zeros(b.e)
  ELSE IF Point(b) > 0
    THEN SubSeq(DigitsOf(b.m), 1, Point(b)) \o <<".">>
           \o SubSeq(DigitsOf(b.m), Point(b) + 1, Len(DigitsOf(b.m)))
  ELSE <<"0", ".">> \o Zeros(-Point(b)) \o DigitsOf(b.m)

\* d[.ddd] of a coefficient in scientific notation.
Coefficient(ds) ==
  IF Len(ds) = 1 THEN ds ELSE <<ds[1], ".">> \o SubSeq(ds, 2, Len(ds))

ExponentText(x) ==
  <<"e">> \o (IF x < 0 THEN <<"-">> ELSE <<>>) \o DigitsOf(Abs(x))

\* A non-negative number in scientific notation; the exponent is the one of
\* the unrounded number, a carry out of the first digit gives 10e<x>.
Scientific(a) ==
  (IF RoundedMant(a) = Pow10(SHORT_PREC) /\ NumDigits(Abs(a.m)) > SHORT_PREC
   THEN <<"1", "0">>
   ELSE Coefficient(DigitsOf(Norm(RoundedMant(a), 0).m)))
  \o ExponentText(Point(a) - 1)

IsScientific(a) == a.m # 0 /\ ~(-6 < Point(a) /\ Point(a) <= 21)

\* dtoa_short::write: the shortest decimal text of the f32, then at most
\* SHORT_PREC significant digits of it.
dtoa_short(a) ==
  (IF a.m < 0 THEN <<"-">> ELSE <<>>)
  \o (IF IsScientific(a) THEN Scientific(a) ELSE Plain(Shortened(a)))

\* cssparser's write_numeric.
write_numeric(value, int_value, has_sign) ==
  (IF has_sign /\ value.m >= 0 THEN <<"+">> ELSE <<>>)
  \o dtoa_short(value)
  \o (IF ~int_value.some /\ Fract(value) = Zero
         /\ ~HasChar(dtoa_short(value), ".") /\ ~HasChar(dtoa_short(value), "e")
      THEN <<".", "0">> ELSE <<>>)

\* Token::Dimension
Dimension(value, int_value, has_sign, unit) ==
  [kind |-> "Dimension", value |-> value, int_value |-> int_value,
   has_sign |-> has_sign, unit |-> unit]

\* <Token as ToCss>::to_css of a Dimension token.
token_to_css(token) ==
  write_numeric(token.value, token.int_value, token.has_sign) \o token.unit

---------------------------------------------------------------------------
(* impl ToCss for Angle                                                    *)

\* The (value, unit) pair chosen for a literal.
Emitted(self) ==
  CASE self.variant = "Deg" -> [value |-> self.value, unit |-> "deg"]
    [] self.variant = "Grad" -> [value |-> self.value, unit |-> "grad"]
    [] self.variant = "Rad" ->
         IF to_degrees(self).some
         THEN IF Fract(Round(FMul(to_degrees(self).v, F(100000, 0)))) = Zero
              THEN [value |-> to_degrees(self).v, unit |-> "deg"]
              ELSE [value |-> self.value, unit |-> "rad"]
         ELSE [value |-> self.value, unit |-> "rad"]
    [] self.variant = "Turn" -> [value |-> self.value, unit |-> "turn"]

\* The Token::Dimension built for the pair.
EmittedToken(value, unit) ==
  Dimension(value,
            IF Fract(value) = Zero THEN Some(value) ELSE None,
            value.m < 0,
            UnitText(unit))

\* What is written to dest for the pair.
WriteDimension(value, unit) ==
  IF value # Zero /\ AbsBelowOne(value)
  THEN IF value.m < 0
       THEN <<"-">> \o trim_start_matches(token_to_css(EmittedToken(value, unit)),
                                          <<"-", "0">>)
       ELSE trim_start_matches(token_to_css(EmittedToken(value, unit)), <<"0">>)
  ELSE token_to_css(EmittedToken(value, unit))

RECURSIVE to_css(_), calc_to_css(_)

\* <Calc<Angle> as ToCss>::to_css
calc_to_css(c) ==
  CASE c.node = "Value" -> to_css(c.leaf)
    [] c.node = "Sum" ->
         calc_to_css(c.left) \o <<" ", "+", " ">> \o calc_to_css(c.right)
    [] c.node = "Product" ->
         dtoa_short(c.factor) \o <<" ", "*", " ">> \o calc_to_css(c.tree)

to_css(self) ==
  IF self.variant = "Calc"
  THEN IF self.calc.node = "Value"
       THEN to_css(self.calc.leaf)
       ELSE <<"c", "a", "l", "c", "(">> \o calc_to_css(self.calc) \o <<")">>
  ELSE WriteDimension(Emitted(self).value, Emitted(self).unit)

RECURSIVE CalcFits(_)
CalcFits(c) ==
  CASE c.node = "Value" -> IF IsLiteral(c.leaf) THEN DegreesFit(c.leaf) ELSE TRUE
    [] c.node = "Sum" -> CalcFits(c.left) /\ CalcFits(c.right)
    [] c.node = "Product" -> CalcFits(c.tree)

\* to_css stays within the modelled numbers.
CssFits(self) ==
  IF self.variant = "Calc" THEN CalcFits(self.calc) ELSE DegreesFit(self)

---------------------------------------------------------------------------
(* The tokenizer that parse reads from.                                    *)

UpperChars == <<"A", "B", "C", "D", "E", "F", "G", "H", "I", "J", "K", "L", "M",
                "N", "O", "P", "Q", "R", "S", "T", "U", "V", "W", "X", "Y", "Z">>
LowerChars == <<"a", "b", "c", "d", "e", "f", "g", "h", "i", "j", "k", "l", "m",
                "n", "o", "p", "q", "r", "s", "t", "u", "v", "w", "x", "y", "z">>
DigitChars == <<"0", "1", "2", "3", "4", "5", "6", "7", "8", "9">>

IsUpper(c) == \E i \in 1..26 : UpperChars[i] = c
IsLower(c) == \E i \in 1..26 : LowerChars[i] = c
IsDigit(c) == \E i \in 1..10 : DigitChars[i] = c
DigitVal(c) == (CHOOSE i \in 1..10 : DigitChars[i] = c) - 1

to_ascii_lowercase(c) ==
  IF IsUpper(c) THEN LowerChars[CHOOSE i \in 1..26 : UpperChars[i] = c] ELSE c

\* match_ignore_ascii_case!: the name is lower-cased, the patterns are not.
MatchIgnoreAsciiCase(name, pattern) ==
  [i \in 1..Len(name) |-> to_ascii_lowercase(name[i])] = pattern

\* The character at i, "" past the end.
At(s, i) == IF i \in 1..Len(s) THEN s[i] ELSE ""

IsNameStart(c) == IsUpper(c) \/ IsLower(c) \/ c = "_"
IsNameChar(c) == IsNameStart(c) \/ IsDigit(c) \/ c = "-"

\* An identifier starts at i.
IsIdentStart(s, i) ==
  \/ IsNameStart(At(s, i))
  \/ At(s, i) = "-" /\ (IsNameStart(At(s, i + 1)) \/ At(s, i + 1) = "-")

\* A number starts at i.
IsNumberStart(s, i) ==
  \/ IsDigit(At(s, i))
  \/ At(s, i) = "." /\ IsDigit(At(s, i + 1))
  \/ /\ At(s, i) \in {"+", "-"}
     /\ \/ IsDigit(At(s, i + 1))
        \/ At(s, i + 1) = "." /\ IsDigit(At(s, i + 2))

\* The index of the last digit of the run of digits that starts at i (i - 1
\* when there is none).
RECURSIVE DigitsEnd(_, _)
DigitsEnd(s, i) == IF IsDigit(At(s, i)) THEN DigitsEnd(s, i + 1) ELSE i - 1

RECURSIVE NameEnd(_, _)
NameEnd(s, i) == IF IsNameChar(At(s, i)) THEN NameEnd(s, i + 1) ELSE i - 1

RECURSIVE NatOf(_)
NatOf(ds) ==
  IF Len(ds) = 0 THEN 0
  ELSE 10 * NatOf(SubSeq(ds, 1, Len(ds) - 1)) + DigitVal(ds[Len(ds)])

Function(name) == [kind |-> "Function", name |-> name]
Ident(name) == [kind |-> "Ident", name |-> name]
Number(value) == [kind |-> "Number", value |-> value]
Delim(c) == [kind |-> "Delim", value |-> c]
EndOfInput == [kind |-> "EOF"]

\* consume_numeric: the numeric token that starts at the front of s.
ConsumeNumeric(s) ==
  LET signed == At(s, 1) \in {"+", "-"}
      i0 == IF signed THEN 2 ELSE 1
      iEnd == DigitsEnd(s, i0)
      hasFrac == At(s, iEnd + 1) = "." /\ IsDigit(At(s, iEnd + 2))
      fEnd == IF hasFrac THEN DigitsEnd(s, iEnd + 2) ELSE iEnd
      frac == IF hasFrac THEN SubSeq(s, iEnd + 2, fEnd) ELSE <<>>
      hasExp == /\ At(s, fEnd + 1) \in {"e", "E"}
                /\ \/ IsDigit(At(s, fEnd + 2))
                   \/ At(s, fEnd + 2) \in {"+", "-"} /\ IsDigit(At(s, fEnd + 3))
      expSigned == hasExp /\ At(s, fEnd + 2) \in {"+", "-"}
      xStart == IF expSigned THEN fEnd + 3 ELSE fEnd + 2
      nEnd == IF hasExp THEN DigitsEnd(s, xStart) ELSE fEnd
      exponent == IF hasExp
                  THEN (IF At(s, fEnd + 2) = "-" THEN -1 ELSE 1)
                         * NatOf(SubSeq(s, xStart, nEnd))
                  ELSE 0
      value == Norm((IF At(s, 1) = "-" THEN -1 ELSE 1)
                      * NatOf(SubSeq(s, i0, iEnd) \o frac),
                    exponent - Len(frac))
      int_value == IF hasFrac \/ hasExp THEN None ELSE Some(value)
      uEnd == NameEnd(s, nEnd + 1)
  IN IF IsIdentStart(s, nEnd + 1)
     THEN [tok |-> Dimension(value, int_value, signed, SubSeq(s, nEnd + 1, uEnd)),
           len |-> uEnd]
     ELSE [tok |-> Number(value), len |-> nEnd]

\* Tokenizer::next on the text s: the first token and its length.
NextToken(s) ==
  IF Len(s) = 0 THEN [tok |-> EndOfInput, len |-> 0]
  ELSE IF IsNumberStart(s, 1) THEN ConsumeNumeric(s)
  ELSE IF IsIdentStart(s, 1)
    THEN IF At(s, NameEnd(s, 1) + 1) = "("
         THEN [tok |-> Function(SubSeq(s, 1, NameEnd(s, 1))),
               len |-> NameEnd(s, 1) + 1]
         ELSE [tok |-> Ident(SubSeq(s, 1, NameEnd(s, 1))), len |-> NameEnd(s, 1)]
  ELSE [tok |-> Delim(s[1]), len |-> 1]

---------------------------------------------------------------------------
(* impl Parse for Angle                                                    *)

\* Result<Angle, ParseError>
Ok(v) == [ok |-> TRUE, value |-> v]
Err(kind, token, location) ==
  [ok |-> FALSE, kind |-> kind, token |-> token, location |-> location]

NoToken == [kind |-> "none"]

\* The parser input: the tokenizer is at pos, ws characters of whitespace
\* precede the token tok of length len; body is what Calc::parse makes of the
\* rest when tok opens a function.
Stream(pos, ws, text, body) ==
  [pos |-> pos, ws |-> ws, tok |-> NextToken(text).tok,
   len |-> NextToken(text).len, body |-> body]

\* ParseDimension with the unit compared case-sensitively.
ParseDimensionCaseSensitive(token, location) ==
  CASE token.unit = <<"d", "e", "g">> -> Ok(Deg(token.value))
    [] token.unit = <<"g", "r", "a", "d">> -> Ok(Grad(token.value))
    [] token.unit = <<"t", "u", "r", "n">> -> Ok(Turn(token.value))
    [] token.unit = <<"r", "a", "d">> -> Ok(Rad(token.value))
    [] OTHER -> Err("UnexpectedToken", token, location)

\* The Token::Dimension arm.
ParseDimension(token, location) ==
  CASE MatchIgnoreAsciiCase(token.unit, <<"d", "e", "g">>) -> Ok(Deg(token.value))
    [] MatchIgnoreAsciiCase(token.unit, <<"g", "r", "a", "d">>) -> Ok(Grad(token.value))
    [] MatchIgnoreAsciiCase(token.unit, <<"t", "u", "r", "n">>) -> Ok(Turn(token.value))
    [] MatchIgnoreAsciiCase(token.unit, <<"r", "a", "d">>) -> Ok(Rad(token.value))
    [] OTHER -> Err("UnexpectedToken", token, location)

\* ParseCalc without the unwrapping of a resolved leaf.
ParseCalcWrapped(body, after) ==
  IF body.ok THEN Ok(Calc(body.calc)) ELSE Err("CalcParseError", NoToken, after)

\* The "calc" arm: Calc::parse(input)? and the unwrapping of a resolved leaf.
ParseCalc(body, after) ==
  IF body.ok
  THEN IF body.calc.node = "Value" THEN Ok(body.calc.leaf) ELSE Ok(Calc(body.calc))
  ELSE Err("CalcParseError", NoToken, after)

\* The Token::Function arm; after is the position behind the function token.
ParseFunction(token, body, after) ==
  IF MatchIgnoreAsciiCase(token.name, <<"c", "a", "l", "c">>)
  THEN ParseCalc(body, after)
  ELSE Err("QualifiedRuleInvalid", NoToken, after)

\* current_source_location() is taken before next() skips the whitespace.
parse(input) ==
  LET location == input.pos
      start == input.pos + input.ws
      token == input.tok
  IN CASE token.kind = "EOF" -> Err("EndOfInput", NoToken, start)
       [] token.kind = "Dimension" -> ParseDimension(token, location)
       [] token.kind = "Function" ->
            ParseFunction(token, input.body, start + input.len)
       [] OTHER -> Err("UnexpectedToken", token, location)

---------------------------------------------------------------------------
(* The inputs.                                                             *)

NumberTexts ==
  { <<"0">>, <<"1">>, <<"4", "5">>, <<"0", ".", "5">>,
    <<"-", "0", ".", "2", "5">>, <<"0", ".", "1">>,
    <<"-", "1", "e", "-", "7">> }

UnitTexts ==
  { <<"d", "e", "g">>, <<"g", "r", "a", "d">>, <<"t", "u", "r", "n">>,
    <<"r", "a", "d">>, <<"D", "E", "G">>, <<"R", "a", "d">>,
    <<"f", "o", "o">>, <<>> }

OtherTexts ==
  { <<"c", "a", "l", "c", "(">>, <<"C", "a", "l", "c", "(">>,
    <<"r", "o", "t", "a", "t", "e", "(">>, <<"a", "u", "t", "o">>, <<>> }

InputTexts == {n \o u : n \in NumberTexts, u \in UnitTexts} \cup OtherTexts

NoBody == [ok |-> FALSE]

\* What Calc::parse may return.
CalcOutcomes ==
  { [ok |-> TRUE, calc |-> CalcValue(Deg(F(45, 0)))],
    [ok |-> TRUE, calc |-> CalcValue(Rad(F(1, 0)))],
    [ok |-> TRUE,
     calc |-> CalcSum(CalcValue(Deg(F(30, 0))),
                      CalcProduct(F(2, 0), CalcValue(Turn(F(1, 0)))))],
    NoBody }

BodiesOf(text) ==
  IF NextToken(text).tok.kind = "Function" THEN CalcOutcomes ELSE {NoBody}

Scalars == { F(0, 0), F(1, 0), F(2, 0), F(5, -1), F(-1, 0) }

Operands ==
  { Deg(F(45, 0)), Turn(F(5, -1)), Rad(F(1, -1)), Grad(F(-1, -7)),
    Calc(CalcSum(CalcValue(Deg(F(1, 0))), CalcValue(Turn(F(1, 0))))) }

NoAngle == [variant |-> "None"]
Nothing == [kind |-> "none"]

---------------------------------------------------------------------------
(* The state machine: a value is parsed, then combined and observed.       *)

Init ==
  /\ val = NoAngle
  /\ op = "init"
  /\ arg = Nothing
  /\ res = Nothing
  /\ out = <<>>
  /\ nops = 0

DoParse ==
  /\ op = "init"
  /\ \E ws \in 0..MaxWs, text \in InputTexts :
       \E body \in BodiesOf(text) :
         LET input == Stream(0, ws, text, body) IN
           /\ arg' = input
           /\ res' = parse(input)
           /\ val' = IF parse(input).ok THEN parse(input).value ELSE NoAngle
  /\ op' = "parse"
  /\ out' = <<>>
  /\ nops' = 0

DoMul ==
  /\ val # NoAngle
  /\ nops < MaxOps
  /\ \E s \in Scalars :
       /\ MulOk(val, s)
       /\ arg' = [self |-> val, other |-> s]
       /\ res' = mul(val, s)
       /\ val' = mul(val, s)
  /\ op' = "mul"
  /\ out' = <<>>
  /\ nops' = nops + 1

DoAdd ==
  /\ val # NoAngle
  /\ nops < MaxOps
  /\ \E o \in Operands :
       /\ AddOk(val, o)
       /\ arg' = [self |-> val, other |-> o]
       /\ res' = add(val, o)
       /\ val' = add(val, o)
  /\ op' = "add"
  /\ out' = <<>>
  /\ nops' = nops + 1

DoToCss ==
  /\ val # NoAngle
  /\ CssFits(val)
  /\ op' = "to_css"
  /\ arg' = val
  /\ res' = IF IsLiteral(val) THEN Emitted(val) ELSE Nothing
  /\ out' = to_css(val)
  /\ UNCHANGED <<val, nops>>

\* The text written by to_css is parsed again.
DoReparse ==
  /\ op = "to_css"
  /\ \E body \in BodiesOf(out) :
       LET input == Stream(0, 0, out, body) IN
         /\ arg' = input
         /\ res' = parse(input)
  /\ op' = "reparse"
  /\ UNCHANGED <<val, out, nops>>

DoEq ==
  /\ val # NoAngle
  /\ \E s \in Scalars :
       /\ arg' = s
       /\ res' = eq(val, s)
  /\ op' = "eq"
  /\ out' = <<>>
  /\ UNCHANGED <<val, nops>>

DoPartialCmp ==
  /\ val # NoAngle
  /\ \E s \in Scalars :
       /\ arg' = s
       /\ res' = partial_cmp(val, s)
  /\ op' = "partial_cmp"
  /\ out' = <<>>
  /\ UNCHANGED <<val, nops>>

Next ==
  \/ DoParse
  \/ DoMul
  \/ DoAdd
  \/ DoToCss
  \/ DoReparse
  \/ DoEq
  \/ DoPartialCmp

Spec == Init /\ [][Next]_vars

---------------------------------------------------------------------------
(* Properties.                                                             *)

LowerText(t) == [i \in 1..Len(t) |-> to_ascii_lowercase(t[i])]

TreeOf(a) == IF a.variant = "Calc" THEN a.calc ELSE CalcValue(a)

\* a and b agree to 1e-5 of a.
Within(a, b) ==
  IF a = b THEN TRUE
  ELSE IF ~AddFits(a, Neg(b)) THEN FALSE
  ELSE LET d == FAdd(a, Neg(b))
       IN FCmp(F(Abs(d.m), d.e + 5), F(Abs(a.m), a.e)) # "Greater"

\* The token text with the zero in front of the decimal point removed.
WithoutLeadingZero(t) ==
  IF StartsWith(t, <<"-", "0", ".">>) THEN <<"-">> \o SubSeq(t, 3, Len(t))
  ELSE IF StartsWith(t, <<"0", ".">>) THEN SubSeq(t, 2, Len(t))
  ELSE t

\* C1: a Radians value is written in degrees, with magnitude to_degrees(v),
\* only when its degree value has at most 5 decimal digits (the degree value
\* times 100000 has no fractional part); every other Radians value is written
\* with its own magnitude and the unit rad.
C1_RadiansSwitchOnlyWhenExact ==
  (op = "to_css" /\ arg.variant = "Rad") =>
    IF Fract(FMul(to_degrees(arg).v, F(100000, 0))) = Zero
    THEN res = [value |-> to_degrees(arg).v, unit |-> "deg"]
    ELSE res = [value |-> arg.value, unit |-> "rad"]

\* C2: parsing the text written for a literal succeeds and gives a literal of
\* the same unit and magnitude, or, when a Radians value was written in
\* degrees, a Degrees value with the same degree-equivalent.
C2_RoundTrip ==
  (op = "reparse" /\ IsLiteral(val)) =>
    /\ res.ok
    /\ IsLiteral(res.value)
    /\ IF val.variant = "Rad" /\ Emitted(val).unit = "deg"
       THEN /\ res.value.variant = "Deg"
            /\ Within(to_degrees(val).v, to_degrees(res.value).v)
       ELSE /\ res.value.variant = val.variant
            /\ Within(val.value, res.value.value)

UnitVariant(unit) ==
  CASE LowerText(unit) = <<"d", "e", "g">> -> "Deg"
    [] LowerText(unit) = <<"g", "r", "a", "d">> -> "Grad"
    [] LowerText(unit) = <<"t", "u", "r", "n">> -> "Turn"
    [] LowerText(unit) = <<"r", "a", "d">> -> "Rad"
    [] OTHER -> "none"

\* C3 as stated: a dimension token parses iff its unit is deg, grad, turn or
\* rad in any case, to that variant with the token's value; any other unit
\* fails with an unexpected-token error carrying the token and the location
\* at which the token started.
C3_DimensionErrorAtTokenStart ==
  (op \in {"parse", "reparse"} /\ arg.tok.kind = "Dimension") =>
    IF UnitVariant(arg.tok.unit) # "none"
    THEN res = Ok([variant |-> UnitVariant(arg.tok.unit), value |-> arg.tok.value])
    ELSE res = Err("UnexpectedToken", arg.tok, arg.pos + arg.ws)

\* C3 amended: as C3, but the error carries the location the parser was at
\* when parse was called, which is in front of the whitespace that precedes
\* the token.
C3_DimensionErrorAtEntry ==
  (op \in {"parse", "reparse"} /\ arg.tok.kind = "Dimension") =>
    IF UnitVariant(arg.tok.unit) # "none"
    THEN res = Ok([variant |-> UnitVariant(arg.tok.unit), value |-> arg.tok.value])
    ELSE res = Err("UnexpectedToken", arg.tok, arg.pos)

C3_Witness ==
  /\ op = "parse"
  /\ arg.tok.kind = "Dimension"
  /\ arg.tok.unit = <<"f", "o", "o">>
  /\ arg.ws > 0
  /\ ~res.ok

\* C4: a function token whose name is not calc fails with an unexpected-token
\* error that carries the function token and the location of that token.
C4_FunctionUnexpectedToken ==
  (op = "parse" /\ arg.tok.kind = "Function"
     /\ LowerText(arg.tok.name) # <<"c", "a", "l", "c">>) =>
    /\ ~res.ok
    /\ res.kind = "UnexpectedToken"
    /\ res.token = arg.tok
    /\ res.location = arg.pos + arg.ws

C6_AddStickyOrDegrees ==
  op = "add" =>
    /\ res # Panic
    /\ IF arg.self.variant = "Calc" \/ arg.other.variant = "Calc"
       THEN res = Calc(CalcAdd(TreeOf(arg.self), TreeOf(arg.other)))
       ELSE res = Deg(FAdd(to_degrees(arg.self).v, to_degrees(arg.other).v))

C6_Witness ==
  /\ op = "add"
  /\ arg.self.variant = "Turn"
  /\ arg.other.variant = "Rad"
  /\ res.variant = "Deg"

\* C7: a literal times a scalar is Degrees of the raw magnitude times the
\* scalar; an Expression times a scalar is an Expression whose tree is the
\* Calc tree times the scalar.
C7_MulRawDegrees ==
  op = "mul" =>
    IF IsLiteral(arg.self)
    THEN res = Deg(FMul(arg.self.value, arg.other))
    ELSE res.variant = "Calc" /\ res.calc = CalcMul(arg.self.calc, arg.other)

C7_Witness ==
  /\ op = "mul"
  /\ arg.self.variant = "Turn"
  /\ arg.self.value = F(5, -1)
  /\ arg.other = F(2, 0)
  /\ res = Deg(One)

\* C8: v == s iff v is a literal whose stored magnitude is s; partial_cmp is
\* the ordering of the stored magnitude against s, none for an Expression;
\* partial_cmp is Equal exactly when == holds.
C8_RawScalarComparison ==
  /\ op = "eq" => res = (IsLiteral(val) /\ val.value = arg)
  /\ op = "partial_cmp" =>
       /\ res = (IF IsLiteral(val) THEN FCmp(val.value, arg) ELSE "None")
       /\ (res = "Equal") = eq(val, arg)

C8_Witness ==
  /\ op = "partial_cmp"
  /\ val.variant = "Rad"
  /\ val.value = One
  /\ arg = One
  /\ res = "Equal"

\* C9: for a literal written with magnitude m, m # 0 and |m| < 1, the text is
\* the dimension token's text with only the zero in front of the decimal
\* point removed, and it never starts with two minus signs; for any other m
\* the token's text is written as it is.
C9_LeadingZeroCompaction ==
  (op = "to_css" /\ IsLiteral(arg)) =>
    LET t == token_to_css(EmittedToken(res.value, res.unit))
    IN IF res.value # Zero /\ AbsBelowOne(res.value)
       THEN out = WithoutLeadingZero(t) /\ ~StartsWith(out, <<"-", "-">>)
       ELSE out = t

\* C10: for literals a and b and a scalar s, (a + b) * s = (a * s) + (b * s).
C10_MulDistributesOverAdd ==
  (op = "add" /\ IsLiteral(arg.self) /\ IsLiteral(arg.other)) =>
    \A s \in Scalars :
      (MulOk(res, s) /\ MulOk(arg.self, s) /\ MulOk(arg.other, s)
         /\ AddOk(mul(arg.self, s), mul(arg.other, s))) =>
        mul(res, s) = add(mul(arg.self, s), mul(arg.other, s))

====
